---- MODULE Spec2Model ----
(***************************************************************************)
(* Model of flexget/plugins/input/dynamic_imdb.py: the DynamicIMDB input   *)
(* plugin.  One invocation of on_task_input resolves an identifier to an   *)
(* entity (entity_type_and_object), enumerates the entity's works          *)
(* (items_by_entity), turns them into entries and applies the max_entries  *)
(* cap.  The metadata backend (IMDbPY) and the host's configuration object *)
(* are the environment: they are drawn in Init and the plugin acts on them.*)
(*                                                                         *)
(* Representation.                                                         *)
(*  - The identifier is a sequence of one-character strings, so that the   *)
(*    regular expressions of ENTITIES_FORMATS are evaluated position by    *)
(*    position.  All other strings are TLA+ strings.                       *)
(*  - A Python dict is a function whose domain is its key set.             *)
(*  - A configuration value that may be a string or a list is the record   *)
(*    [type |-> "str" | "list", v |-> sequence].                           *)
(*  - Python's None, where the code only tests it for truth or iterates    *)
(*    it, is the empty sequence; the result of on_task_input keeps None    *)
(*    (status "none") apart from a returned list (status "entries").       *)
(***************************************************************************)
EXTENDS Integers, Sequences, FiniteSets, TLC

VARIABLES config, backend, dict_order, runs, out

vars == <<config, backend, dict_order, runs, out>>

(***************************************************************************)
(* Bounds of the model.                                                    *)
(***************************************************************************)
MaxWorks == 2
MaxLen == 2
MaxRuns == 2

(***************************************************************************)
(* Program constants.                                                      *)
(***************************************************************************)
JOB_TYPES ==
    <<"actor", "director", "producer", "writer", "self", "editor",
      "miscellaneous", "editorial department", "cinematographer",
      "visual effects", "thanks", "music department">>

CONTENT_TYPES ==
    <<"movie", "tv series", "tv mini series", "video game", "video movie",
      "tv movie", "episode">>

\* The literal prefix of each pattern of ENTITIES_FORMATS; every pattern
\* continues with (\d{7}).
ENTITIES_FORMATS ==
    [Person |-> <<"n", "m">>, Company |-> <<"c", "o">>, Character |-> <<"c", "h">>]

IdDigits == 7

DefaultMaxEntries == 200

Digits == {"0", "1", "2", "3", "4", "5", "6", "7", "8", "9"}

(***************************************************************************)
(* Python helpers.                                                         *)
(***************************************************************************)
\* x in list
Contains(s, x) == \E i \in 1..Len(s) : s[i] = x

\* dict.get(key, default)
Get(d, key, default) == IF key \in DOMAIN d THEN d[key] ELSE default

\* d[key] = value
Put(d, key, value) == [k \in DOMAIN d \cup {key} |-> IF k = key THEN value ELSE d[k]]

\* dict.setdefault(key, value), for its effect on the dict
SetDefault(d, key, value) == IF key \in DOMAIN d THEN d ELSE Put(d, key, value)

PyStr(s) == [type |-> "str", v |-> <<s>>]

PyList(l) == [type |-> "list", v |-> l]

(***************************************************************************)
(* re.search(prefix(\d{7}), s): the leftmost position where the prefix is  *)
(* followed by seven digits, and the digits captured there.                *)
(***************************************************************************)
MatchAt(s, prefix, i) ==
    /\ i + Len(prefix) + IdDigits - 1 <= Len(s)
    /\ \A k \in 1..Len(prefix) : s[i + k - 1] = prefix[k]
    /\ \A k \in 1..IdDigits : s[i + Len(prefix) + k - 1] \in Digits

\* As re.match would: the pattern at the start of s only
re_match(prefix, s) ==
    IF Len(s) >= 1 /\ MatchAt(s, prefix, 1)
    THEN [matched |-> TRUE,
          group1 |-> SubSeq(s, 1 + Len(prefix), Len(prefix) + IdDigits)]
    ELSE [matched |-> FALSE, group1 |-> <<>>]

re_search(prefix, s) ==
    IF \E i \in 1..Len(s) : MatchAt(s, prefix, i)
    THEN LET i0 == CHOOSE i \in 1..Len(s) :
                     /\ MatchAt(s, prefix, i)
                     /\ \A j \in 1..(i - 1) : ~MatchAt(s, prefix, j)
         IN [matched |-> TRUE,
             group1 |-> SubSeq(s, i0 + Len(prefix), i0 + Len(prefix) + IdDigits - 1)]
    ELSE [matched |-> FALSE, group1 |-> <<>>]

(***************************************************************************)
(* The backend's lookups ia.get_person / get_company / get_character: the  *)
(* entity of the given kind and id, carrying the attribute bag the backend *)
(* holds; the call raises when the backend fails.                          *)
(***************************************************************************)
ia_get(b, entity_type, id) ==
    IF b.lookup_fails
    THEN [raised |-> TRUE, found |-> FALSE, type |-> entity_type, id |-> id, data |-> <<>>]
    ELSE [raised |-> FALSE, found |-> TRUE, type |-> entity_type, id |-> id,
          data |-> b.fields]

(***************************************************************************)
(* entity_type_and_object: the kinds are tried in the iteration order of   *)
(* the ENTITIES_FORMATS dict (order); the first kind whose pattern is      *)
(* found decides.  found = FALSE with raised = FALSE is the None the       *)
(* function returns when no pattern is found.                              *)
(***************************************************************************)
RECURSIVE entity_loop(_, _, _, _)
entity_loop(b, order, imdb_id, n) ==
    IF n > Len(order)
    THEN [raised |-> FALSE, found |-> FALSE, type |-> "", id |-> <<>>, data |-> <<>>]
    ELSE LET m == re_search(ENTITIES_FORMATS[order[n]], imdb_id)
         IN IF m.matched
            THEN ia_get(b, order[n], m.group1)
            ELSE entity_loop(b, order, imdb_id, n + 1)

entity_type_and_object(b, order, imdb_id) == entity_loop(b, order, imdb_id, 1)

(***************************************************************************)
(* items_by_entity.                                                        *)
(***************************************************************************)
\* self.ia.update(movie): the movie takes the attributes the backend holds
\* for its id (title, kind, and rating and year when known); the call raises
\* for the works whose fetch fails.
ia_update(b, movie) ==
    IF movie.movieID \in b.update_fails
    THEN [raised |-> TRUE, movie |-> movie]
    ELSE [raised |-> FALSE,
          movie |-> [k \in DOMAIN movie \cup DOMAIN b.catalog[movie.movieID] |->
                        IF k \in DOMAIN b.catalog[movie.movieID]
                        THEN b.catalog[movie.movieID][k]
                        ELSE movie[k]]]

\* if 'actor' in job_types: job_types.append('actress')
expand_job_types(job_types) ==
    IF Contains(job_types, "actor") THEN Append(job_types, "actress") ELSE job_types

\* job_and_content = job_type + ' ' + content_type
job_and_content(job_type, content_type) == job_type \o " " \o content_type

\* As entity_object.get(job_type) alone would
movies_by_bare_job_type(data, job_type, content_type) == Get(data, job_type, <<>>)

\* entity_object.get(job_and_content, entity_object.get(job_type))
movies_by_job_type(data, job_type, content_type) ==
    Get(data, job_and_content(job_type, content_type), Get(data, job_type, <<>>))

\* As the test would be without its second conjunct
keep_movie_any_kind(movies, movie, content_types) == ~Contains(movies, movie)

\* movie not in movies and movie['kind'] in content_types
keep_movie(movies, movie, content_types) ==
    /\ ~Contains(movies, movie)
    /\ Contains(content_types, movie.kind)

\* for movie in movies_by_job_type: update, test, append.  acc is
\* [raised, movies]; a raising update ends the enumeration.
RECURSIVE movie_loop(_, _, _, _, _)
movie_loop(b, list, n, content_types, acc) ==
    IF acc.raised \/ n > Len(list)
    THEN acc
    ELSE LET u == ia_update(b, list[n])
         IN IF u.raised
            THEN [acc EXCEPT !.raised = TRUE]
            ELSE movie_loop(b, list, n + 1, content_types,
                     IF keep_movie(acc.movies, u.movie, content_types)
                     THEN [acc EXCEPT !.movies = Append(@, u.movie)]
                     ELSE acc)

\* for job_type in job_types: for content_type in content_types: the pair
\* numbered p (0-based, content type fastest) and those after it.
RECURSIVE pair_loop(_, _, _, _, _, _)
pair_loop(b, data, job_types, content_types, p, acc) ==
    IF acc.raised \/ p >= Len(job_types) * Len(content_types)
    THEN acc
    ELSE LET job_type == job_types[(p \div Len(content_types)) + 1]
             content_type == content_types[(p % Len(content_types)) + 1]
             list == movies_by_job_type(data, job_type, content_type)
             seen == [acc EXCEPT
                        !.queried = Append(@, job_and_content(job_type, content_type))]
         IN pair_loop(b, data, job_types, content_types, p + 1,
                      movie_loop(b, list, 1, content_types, seen))

\* The result: the list returned (movies), whether an exception left the
\* function (raised), the job_types list as the function leaves it, and the
\* labels it looked up, in order.
items_by_entity(b, entity_type, entity_object, content_types, job_types) ==
    IF entity_type = "Company"
    THEN [raised |-> FALSE, job_types |-> job_types, queried |-> <<>>,
          movies |-> Get(entity_object.data, "production companies", <<>>)]
    ELSE IF entity_type = "Character"
    THEN [raised |-> FALSE, job_types |-> job_types, queried |-> <<>>,
          movies |-> Get(entity_object.data, "feature", <<>>)
                       \o Get(entity_object.data, "tv", <<>>)
                       \o Get(entity_object.data, "video-game", <<>>)
                       \o Get(entity_object.data, "video", <<>>)]
    ELSE LET expanded == expand_job_types(job_types)
             acc == pair_loop(b, entity_object.data, expanded, content_types, 0,
                              [raised |-> FALSE, movies |-> <<>>, queried |-> <<>>])
         IN [raised |-> acc.raised, job_types |-> expanded, queried |-> acc.queried,
             movies |-> IF acc.raised THEN <<>> ELSE acc.movies]

(***************************************************************************)
(* prepare_config: the dict the plugin works on.  A configuration that is  *)
(* not a dict is wrapped in a new one; a dict is completed in place.       *)
(***************************************************************************)
prepare_config(cfg) ==
    LET d0 == cfg.d
        d1 == SetDefault(d0, "content_types", PyList(<<CONTENT_TYPES[1]>>))
        d2 == SetDefault(d1, "job_types", PyList(<<JOB_TYPES[1]>>))
        d3 == SetDefault(d2, "max_entries", DefaultMaxEntries)
        d4 == IF d3["content_types"].type = "str"
              THEN Put(d3, "content_types", PyList(d3["content_types"].v))
              ELSE d3
        d5 == IF d4["job_types"].type = "str"
              THEN Put(d4, "job_types", PyList(d4["job_types"].v))
              ELSE d4
    IN [is_dict |-> TRUE, d |-> d5]

(***************************************************************************)
(* The entries of on_task_input.                                           *)
(***************************************************************************)
\* self.ia.get_imdbID(item): the backend's id of the work
get_imdbID(item) == item.movieID

\* Entry(title=item['title'], imdb_id='tt' + self.ia.get_imdbID(item), url='')
Entry(item) == [title |-> item.title, imdb_id |-> "tt" \o get_imdbID(item), url |-> ""]

\* entry.isvalid(): an entry with a title and a url is valid
isvalid(entry) == entry.title \in STRING /\ entry.url \in STRING

\* if entry.isvalid(): if entry not in entries: entries.append(entry)
\* (list membership compares whole entries: title, imdb_id and url)
add_entry(entries, entry) ==
    IF isvalid(entry) /\ ~Contains(entries, entry) THEN Append(entries, entry) ELSE entries

RECURSIVE entry_loop(_, _, _)
entry_loop(items, n, entries) ==
    IF n > Len(items)
    THEN entries
    ELSE entry_loop(items, n + 1, add_entry(entries, Entry(items[n])))

\* As a cap that truncates would
cap_truncate(entries, max_entries) ==
    IF Len(entries) <= max_entries
    THEN [status |-> "entries", entries |-> entries]
    ELSE [status |-> "entries", entries |-> SubSeq(entries, 1, max_entries)]

\* if len(entries) <= config.get('max_entries'): return entries; else: return
cap_entries(entries, max_entries) ==
    IF Len(entries) <= max_entries
    THEN [status |-> "entries", entries |-> entries]
    ELSE [status |-> "none", entries |-> <<>>]

(***************************************************************************)
(* on_task_input, as a function of the host's configuration object, the    *)
(* backend and the dict order: the configuration object as the call leaves *)
(* it, and what the call produced.  status is "entries" (a list was        *)
(* returned), "none" (the call returned None) or "raised" (an exception    *)
(* left the call).                                                         *)
(***************************************************************************)
NoEntity == [raised |-> FALSE, found |-> FALSE, type |-> "", id |-> <<>>, data |-> <<>>]

Outcome(status, entries, entity, enumerated, it) ==
    [status |-> status, entries |-> entries,
     resolved |-> [raised |-> entity.raised, found |-> entity.found,
                   type |-> entity.type, id |-> entity.id],
     enumerated |-> enumerated, items |-> it.movies, queried |-> it.queried,
     job_types |-> it.job_types]

NoItems == [raised |-> FALSE, movies |-> <<>>, queried |-> <<>>, job_types |-> <<>>]

run_task_input(cfg, b, order) ==
    IF ~b.imdbpy
    THEN [config |-> cfg, out |-> Outcome("none", <<>>, NoEntity, FALSE, NoItems)]
    ELSE
    LET prepared == prepare_config(cfg)
        after_prepare == IF cfg.is_dict THEN prepared ELSE cfg
        entity == entity_type_and_object(b, order, prepared.d["id"])
    IN  IF entity.raised \/ ~entity.found
        THEN [config |-> after_prepare,
              out |-> Outcome("none", <<>>, entity, FALSE, NoItems)]
        ELSE
        LET it == items_by_entity(b, entity.type, entity,
                                  prepared.d["content_types"].v,
                                  prepared.d["job_types"].v)
            after_items ==
                IF cfg.is_dict
                THEN [prepared EXCEPT !.d = Put(@, "job_types", PyList(it.job_types))]
                ELSE cfg
            entries == entry_loop(it.movies, 1, <<>>)
            capped == cap_entries(entries, prepared.d["max_entries"])
        IN  IF it.raised
            THEN [config |-> after_items,
                  out |-> Outcome("raised", <<>>, entity, TRUE, it)]
            ELSE IF it.movies = <<>>
            THEN [config |-> after_items,
                  out |-> Outcome("none", <<>>, entity, TRUE, it)]
            ELSE [config |-> after_items,
                  out |-> Outcome(capped.status, capped.entries, entity, TRUE, it)]

(***************************************************************************)
(* The inputs: identifiers, configurations and backends.                   *)
(***************************************************************************)
PersonId == <<"n", "m", "0", "0", "0", "0", "3", "7", "5">>
CompanyUrl == <<"/", "c", "o", "0", "0", "5", "1", "9", "4", "1", "/">>
CharacterUrl == <<"/", "c", "h", "0", "0", "0", "1", "3", "5", "4", "/", "?">>
TitleId == <<"t", "t", "0", "0", "0", "0", "3", "7", "5">>
ShortId == <<"n", "m", "0", "0", "0", "3", "7", "5">>
SplitId == <<"n", "m", "0", "0", "0", "-", "0", "3", "7", "5">>
UpperId == <<"N", "M", "0", "0", "0", "0", "3", "7", "5">>
LongId == <<"x", "n", "m", "1", "2", "3", "4", "5", "6", "7", "8">>
TwiceId == <<"c", "h", "0", "0", "0", "0", "0", "0", "1", "c", "h", "0", "0", "0", "0", "0", "0", "2">>
PersonCompanyId ==
    <<"n", "m", "0", "0", "0", "0", "3", "7", "5", "c", "o", "0", "0", "5", "1", "9", "4", "1">>
EmptyId == <<>>

Identifiers ==
    {PersonId, CompanyUrl, CharacterUrl, TitleId, ShortId, SplitId, UpperId, LongId,
     TwiceId, PersonCompanyId, EmptyId}

EntityTypes == {"Person", "Company", "Character"}

\* The iteration orders of the ENTITIES_FORMATS dict
DictOrders ==
    {o \in [1..3 -> EntityTypes] : \A i, j \in 1..3 : i # j => o[i] # o[j]}

SourceOrder == <<"Person", "Company", "Character">>

\* The backend's id of work i, its title, and a title a listing may show instead
MovieID(i) == "000000" \o ToString(i)
Title(i) == "Title " \o ToString(i)
Aka(i) == "Aka " \o ToString(i)

WorkNumbers == 1..MaxWorks
WorkIds == {MovieID(i) : i \in WorkNumbers}

\* What the backend holds about work i
Work(i, kind) == [title |-> Title(i), kind |-> kind]

\* Catalogs by kind alone: every work of N is a movie, but for at most one
\* work, of Others, which is a tv series
KindCatalogs(N, Others) ==
    {[id \in {MovieID(i) : i \in N} |->
         LET i == CHOOSE n \in N : MovieID(n) = id
         IN Work(i, IF i = other THEN "tv series" ELSE "movie")] :
       other \in Others \cup {0}}

\* What the backend may know of a work's rating and year
Profiles ==
    {("year" :> 1999), ("rating" :> 4) @@ ("year" :> 2000),
     ("rating" :> 5) @@ ("year" :> 2004), ("rating" :> 7) @@ ("year" :> 2005)}

RatedCatalogs(N) ==
    {[id \in {MovieID(i) : i \in N} |->
         LET i == CHOOSE n \in N : MovieID(n) = id
         IN [k \in {"title", "kind"} \cup DOMAIN p[i] |->
               IF k \in DOMAIN p[i] THEN p[i][k] ELSE Work(i, "movie")[k]]] :
       p \in [N -> Profiles]}

\* The entries of an entity's lists: an id with the title the list shows
Listed(i, title) == [movieID |-> MovieID(i), title |-> title]

PlainListings(N) == {Listed(i, Title(i)) : i \in N}

AllListings(N) == PlainListings(N) \cup {Listed(i, Aka(i)) : i \in N}

\* The lists of at most MaxLen entries
ListsOf(L) == UNION {[1..k -> L] : k \in 0..MaxLen}

\* At most MaxLen credits, each a work filed under a label, and the attribute
\* bag they make: every label with the works filed under it, in order
CreditSeqs(Labels, L) == UNION {[1..k -> Labels \X L] : k \in 0..MaxLen}

RECURSIVE Filed(_, _)
Filed(credits, label) ==
    IF credits = <<>>
    THEN <<>>
    ELSE (IF Head(credits)[1] = label THEN <<Head(credits)[2]>> ELSE <<>>)
            \o Filed(Tail(credits), label)

BagOf(credits) ==
    [label \in {credits[i][1] : i \in 1..Len(credits)} |-> Filed(credits, label)]

EmptyBag == BagOf(<<>>)

SampleBag ==
    BagOf(<<<<"production companies", Listed(1, Title(1))>>,
            <<"feature", Listed(1, Title(1))>>,
            <<"actor movie", Listed(1, Title(1))>>,
            <<"actress", Listed(1, Aka(1))>>,
            <<"director", Listed(2, Title(2))>>>>)

CharacterFields == {"feature", "tv", "video-game", "video"}

PersonLabels == {"actor movie", "actress movie", "actor", "director"}

Movies(N) == [id \in {MovieID(i) : i \in N} |->
                 Work(CHOOSE n \in N : MovieID(n) = id, "movie")]

Backend(fields, catalog) ==
    [imdbpy |-> TRUE, lookup_fails |-> FALSE, update_fails |-> {},
     fields |-> fields, catalog |-> catalog]

\* The configuration the host passes: a bare identifier or a dict
Bare(id) == [is_dict |-> FALSE, d |-> ("id" :> id)]
Dict(d) == [is_dict |-> TRUE, d |-> d]

Optional(key, values) == {<<>>} \cup {(key :> v) : v \in values}

Idle == Outcome("idle", <<>>, NoEntity, FALSE, NoItems)

(***************************************************************************)
(* The initial states, by the part of the input they vary.                 *)
(***************************************************************************)
\* Identifiers, dict orders and backend availability
InitResolve ==
    \E id \in Identifiers, is_dict \in BOOLEAN, installed \in BOOLEAN, fails \in BOOLEAN :
        /\ config = [is_dict |-> is_dict, d |-> ("id" :> id)]
        /\ dict_order \in DictOrders
        /\ backend = [Backend(SampleBag, Movies(WorkNumbers)) EXCEPT
                         !.imdbpy = installed, !.lookup_fails = fails]

\* A company's list, with the titles the list shows, against max_entries
InitCompany ==
    /\ config \in {Dict(("id" :> CompanyUrl) @@ m) : m \in Optional("max_entries", 0..MaxLen)}
    /\ dict_order = SourceOrder
    /\ backend \in {Backend(f, Movies(WorkNumbers)) :
                      f \in {EmptyBag} \cup
                            {("production companies" :> l) : l \in ListsOf(AllListings(WorkNumbers))}}

\* A character's four lists
InitCharacter ==
    /\ config \in {Bare(CharacterUrl), Dict(("id" :> CharacterUrl) @@ ("max_entries" :> 1))}
    /\ dict_order = SourceOrder
    /\ backend \in {Backend(BagOf(c), Movies(WorkNumbers)) :
                      c \in CreditSeqs(CharacterFields,
                                       PlainListings(WorkNumbers) \cup {Listed(1, Aka(1))})}

\* A person's credits against the job and content types asked for
InitPerson ==
    /\ config \in {Dict(("id" :> PersonId) @@ j @@ c) :
                     j \in Optional("job_types", {PyList(<<"director", "actor">>)}),
                     c \in Optional("content_types", {PyList(<<"tv series", "movie">>)})}
    /\ dict_order = SourceOrder
    /\ backend \in {Backend(BagOf(c), k) :
                      c \in CreditSeqs(PersonLabels, PlainListings(WorkNumbers)),
                      k \in KindCatalogs(WorkNumbers, {1})}

\* The forms a configuration takes
InitConfig ==
    /\ config \in {Bare(PersonId), Bare(CompanyUrl)} \cup
                  {Dict(("id" :> id) @@ j @@ c @@ m) :
                     id \in {PersonId, CompanyUrl},
                     j \in Optional("job_types",
                                    {PyStr("actor"), PyStr("director"), PyList(<<"actor">>),
                                     PyList(<<"actor", "director">>)}),
                     c \in Optional("content_types",
                                    {PyStr("movie"), PyStr("tv series"),
                                     PyList(<<"movie", "tv series">>)}),
                     m \in Optional("max_entries", {1, DefaultMaxEntries})}
    /\ dict_order = SourceOrder
    /\ backend = Backend(SampleBag, Movies(WorkNumbers))

\* Works whose hydration fails
InitFailure ==
    /\ config \in {Bare(PersonId), Bare(CompanyUrl), Bare(CharacterUrl)}
    /\ dict_order = SourceOrder
    /\ backend \in {[Backend(BagOf(c), Movies(WorkNumbers)) EXCEPT !.update_fails = u] :
                      c \in CreditSeqs({"actor movie", "actress", "feature"},
                                       PlainListings(WorkNumbers)),
                      u \in SUBSET WorkIds}

\* The documented filter keys against works of known rating and year
InitFilter ==
    /\ config \in {Dict(("id" :> CompanyUrl) @@ f) :
                     f \in {("rating" :> 5),
                            ("rating" :> 5) @@ ("strict_mode" :> TRUE),
                            ("rating" :> 5) @@ ("strict_mode" :> FALSE),
                            ("years" :> "2000-2004"),
                            ("years" :> "2000-2004") @@ ("strict_mode" :> TRUE)}}
    /\ dict_order = SourceOrder
    /\ backend \in {Backend(("production companies" :> l), k) :
                      l \in {x \in ListsOf(PlainListings(WorkNumbers)) :
                               /\ x # <<>>
                               /\ \A i, j \in 1..Len(x) : i # j => x[i] # x[j]},
                      k \in RatedCatalogs(WorkNumbers)}

\* A person with three credits as actor of a movie, one of them as actress too
InitEndToEnd ==
    LET N == 1..(MaxWorks + 1)
    IN  /\ config \in {Bare(PersonId)} \cup
                      {Dict(("id" :> PersonId) @@ ("job_types" :> PyList(<<"actor">>))
                                @@ ("content_types" :> PyList(<<"movie">>)) @@ m) :
                         m \in Optional("max_entries", {2, 3})}
        /\ dict_order = SourceOrder
        /\ backend \in {Backend(("actor movie" :> [i \in 1..3 |-> Listed(a[i], Title(a[i]))])
                                  @@ ("actress movie" :> <<Listed(a[d], Title(a[d]))>>), k) :
                          a \in {x \in [1..3 -> N] : \A i, j \in 1..3 : i # j => x[i] # x[j]},
                          d \in 1..3,
                          k \in KindCatalogs(N, N)}

Init ==
    /\ runs = 0
    /\ out = Idle
    /\ \/ InitResolve
       \/ InitCompany
       \/ InitCharacter
       \/ InitPerson
       \/ InitConfig
       \/ InitFailure
       \/ InitFilter
       \/ InitEndToEnd

(***************************************************************************)
(* The host invokes the plugin; the configuration object and the backend   *)
(* outlive the invocation.                                                 *)
(***************************************************************************)
on_task_input ==
    /\ runs < MaxRuns
    /\ LET r == run_task_input(config, backend, dict_order)
       IN /\ config' = r.config
          /\ out' = r.out
    /\ runs' = runs + 1
    /\ UNCHANGED <<backend, dict_order>>

Next == on_task_input

Spec == Init /\ [][Next]_vars

TypeOK ==
    /\ runs \in 0..MaxRuns
    /\ out.status \in {"idle", "none", "entries", "raised"}
    /\ config.is_dict \in BOOLEAN

(***************************************************************************)
(* The properties.  out and config are those of the last invocation once   *)
(* Done holds.                                                             *)
(***************************************************************************)
Done == runs > 0

\* The values the invocation worked with, read from the configuration
MaxEntriesOf(cfg) == Get(cfg.d, "max_entries", DefaultMaxEntries)

ContentTypesOf(cfg) ==
    IF "content_types" \in DOMAIN cfg.d THEN cfg.d["content_types"].v ELSE <<CONTENT_TYPES[1]>>

JobTypesOf(cfg) ==
    IF "job_types" \in DOMAIN cfg.d THEN cfg.d["job_types"].v ELSE <<JOB_TYPES[1]>>

\* The record with the canonical id of work id is in the output
Kept(id) == \E i \in 1..Len(out.entries) : out.entries[i].imdb_id = "tt" \o id

\* The distinct (title, id) pairs of a list of works
Records(items) == {<<items[i].title, items[i].movieID>> : i \in 1..Len(items)}

\* C1: whenever on_task_input returns a list of records, no two records of
\* the list have the same canonical id (imdb_id), also when the backend
\* lists one work id twice with different titles.
C1_UniqueCanonicalIds ==
    out.status = "entries" =>
        \A i, j \in 1..Len(out.entries) :
            i # j => out.entries[i].imdb_id # out.entries[j].imdb_id

\* C2: the max_entries cap is fail-closed: when the deduplicated records
\* outnumber max_entries nothing is returned, otherwise all of them are; a
\* returned list is never longer than max_entries.
C2_FailClosedCap ==
    /\ out.status = "entries" => Len(out.entries) <= MaxEntriesOf(config)
    /\ (Done /\ out.enumerated /\ out.status # "raised" /\ out.items # <<>>) =>
          LET n == Cardinality(Records(out.items))
          IN IF n > MaxEntriesOf(config)
             THEN out.status = "none" /\ out.entries = <<>>
             ELSE /\ out.status = "entries"
                  /\ Len(out.entries) = n
                  /\ \A i \in 1..Len(out.items) :
                        \E j \in 1..Len(out.entries) :
                            /\ out.entries[j].title = out.items[i].title
                            /\ out.entries[j].imdb_id = "tt" \o out.items[i].movieID

\* C2 witness: more records than a positive max_entries, and nothing returned.
C2_Witness ==
    /\ Done /\ out.enumerated /\ out.status = "none"
    /\ MaxEntriesOf(config) > 0
    /\ Cardinality(Records(out.items)) > MaxEntriesOf(config)

\* C3: in every expected failure (identifier matching no pattern, backend
\* lookup or work hydration raising, no works, too many records) the
\* invocation returns nothing and no exception leaves on_task_input.
C3_NoExceptionEscapes == out.status # "raised"

\* The pattern of a kind occurs in s at position i
Occurs(s, kind, i) ==
    /\ i + IdDigits + 1 <= Len(s)
    /\ <<s[i], s[i + 1]>> = ENTITIES_FORMATS[kind]
    /\ \A k \in (i + 2)..(i + IdDigits + 1) : s[k] \in Digits

Matching(s) == {kind \in EntityTypes : \E i \in 1..Len(s) : Occurs(s, kind, i)}

\* C4: an identifier that matches exactly one of the three patterns resolves
\* to that kind and to the entity looked up by the captured digits (the
\* backend answering); an identifier that matches none is not resolved, no
\* enumeration is issued and no records are returned.
C4_Resolution ==
    (Done /\ backend.imdbpy) =>
        LET s == config.d["id"]
        IN /\ (Cardinality(Matching(s)) = 1 /\ ~backend.lookup_fails) =>
                \E kind \in Matching(s), i \in 1..Len(s) :
                    /\ Occurs(s, kind, i)
                    /\ \A j \in 1..(i - 1) : ~Occurs(s, kind, j)
                    /\ out.resolved.found
                    /\ out.resolved.type = kind
                    /\ out.resolved.id = SubSeq(s, i + 2, i + IdDigits + 1)
                    /\ out.enumerated
           /\ Matching(s) = {} =>
                /\ ~out.resolved.found
                /\ ~out.enumerated
                /\ out.queried = <<>>
                /\ out.status = "none"
                /\ out.entries = <<>>

\* C4 witness: an identifier inside a URL resolved to its one kind.
C4_Witness ==
    /\ Done /\ backend.imdbpy /\ ~backend.lookup_fails
    /\ config.d["id"] = CharacterUrl
    /\ out.resolved.found /\ out.resolved.type = "Character"
    /\ out.resolved.id = <<"0", "0", "0", "1", "3", "5", "4">>

\* C5: with a minimum rating configured, a work whose rating is known is
\* kept iff rating >= min_rating, and a work whose rating is missing is kept
\* iff strict_mode is false.
C5_RatingFilter ==
    (Done /\ "rating" \in DOMAIN config.d /\ out.status = "entries") =>
        \A i \in 1..Len(out.items) :
            LET id == out.items[i].movieID
                work == backend.catalog[id]
            IN IF "rating" \in DOMAIN work
               THEN Kept(id) <=> work["rating"] >= config.d["rating"]
               ELSE Kept(id) <=> ~Get(config.d, "strict_mode", FALSE)

\* C6: with years '2000-2004' a work is kept iff 2000 <= year <= 2004.
C6_YearRange ==
    (Done /\ "years" \in DOMAIN config.d /\ out.status = "entries") =>
        \A i \in 1..Len(out.items) :
            LET id == out.items[i].movieID
                work == backend.catalog[id]
            IN (config.d["years"] = "2000-2004" /\ "year" \in DOMAIN work) =>
                  (Kept(id) <=> (2000 <= work["year"] /\ work["year"] <= 2004))

\* The case of C7: a person, job_types ['actor'], content_types ['movie'],
\* three credits as actor of a movie with distinct ids, one of them also the
\* one credit as actress of a movie; every credit is a movie, the backend
\* answers and max_entries admits them.
EndToEndCase ==
    /\ Done /\ backend.imdbpy /\ ~backend.lookup_fails /\ backend.update_fails = {}
    /\ out.resolved.found /\ out.resolved.type = "Person"
    /\ out.job_types = <<"actor", "actress">>
    /\ ContentTypesOf(config) = <<"movie">>
    /\ MaxEntriesOf(config) >= 3
    /\ {"actor movie", "actress movie"} \subseteq DOMAIN backend.fields
    /\ LET actor == backend.fields["actor movie"]
           actress == backend.fields["actress movie"]
       IN /\ Len(actor) = 3
          /\ \A i, j \in 1..3 : i # j => actor[i].movieID # actor[j].movieID
          /\ \A i \in 1..3 : backend.catalog[actor[i].movieID].kind = "movie"
          /\ Len(actress) = 1
          /\ \E i \in 1..3 : actress[1].movieID = actor[i].movieID

\* C7 as stated: in that case the output holds exactly 2 records.
C7_TwoRecords == EndToEndCase => (out.status = "entries" /\ Len(out.entries) = 2)

\* C7 as amended: in that case the output holds exactly 3 records, one for
\* each of the three works.
C7_ThreeRecords ==
    EndToEndCase =>
        /\ out.status = "entries"
        /\ Len(out.entries) = 3
        /\ \A i \in 1..3 : Kept(backend.fields["actor movie"][i].movieID)

\* C7 witness: the case, with the records returned.
C7_Witness == EndToEndCase /\ out.status = "entries"

\* C8: the list items_by_entity returns holds each distinct work (by the
\* backend's work id) once, for an entity of any kind.
C8_EnumeratorDedup ==
    (Done /\ out.enumerated /\ out.status # "raised") =>
        \A i, j \in 1..Len(out.items) :
            i # j => out.items[i].movieID # out.items[j].movieID

\* C9: an invocation does not modify the configuration it was given: the
\* job_types list, the content types and max_entries the configuration
\* stands for are after on_task_input what they were before it.
C9_ConfigUnmodified ==
    [][/\ JobTypesOf(config') = JobTypesOf(config)
       /\ ContentTypesOf(config') = ContentTypesOf(config)
       /\ MaxEntriesOf(config') = MaxEntriesOf(config)]_vars

\* C10: for a person, every work items_by_entity returns has, after
\* hydration, a kind among the requested content types, and no record of a
\* work of another kind is returned.
C10_KindRequested ==
    (Done /\ out.resolved.found /\ out.resolved.type = "Person" /\ out.status # "raised") =>
        /\ \A i \in 1..Len(out.items) :
              /\ out.items[i].kind = backend.catalog[out.items[i].movieID].kind
              /\ Contains(ContentTypesOf(config), out.items[i].kind)
        /\ \A id \in DOMAIN backend.catalog :
              Kept(id) => Contains(ContentTypesOf(config), backend.catalog[id].kind)

\* C10 witness: a work of a kind not asked for, filed under the bare job
\* type the lookup fell back to, next to a work that was returned.
C10_Witness ==
    /\ Done /\ out.resolved.found /\ out.resolved.type = "Person"
    /\ out.status = "entries"
    /\ Contains(out.queried, "actor movie")
    /\ "actor movie" \notin DOMAIN backend.fields
    /\ "actor" \in DOMAIN backend.fields
    /\ \E i \in 1..Len(backend.fields["actor"]) :
          ~Contains(ContentTypesOf(config),
                    backend.catalog[backend.fields["actor"][i].movieID].kind)

====
